---- MODULE Spec2Model ----
(***************************************************************************)
(* A model of the tissuemap server (src/server/server.py).                 *)
(*                                                                         *)
(* Spec      : the chunked upload handler upload_file, run by the          *)
(*             single asyncio event loop of uvicorn.  A handler runs       *)
(*             without interruption between two awaits; the only await of  *)
(*             upload_file is `await file.read()` (line 248), reached      *)
(*             after the scratch file has been opened (and truncated).     *)
(*                                                                         *)
(* SpecStore : the handlers that work on the slide store SLIDE_DIR: the     *)
(*             catalog (samples and find_zarr_datasets), the settings of   *)
(*             a slide (save_slide_settings, which suspends in             *)
(*             `await request.json()`, line 207), delete_sample,           *)
(*             sample_stats and get_tile.                                  *)
(*                                                                         *)
(* Strings are sequences of one-character strings, file contents are       *)
(* sequences of bytes, directories are functions from file name to         *)
(* content whose DOMAIN is the set of files that exist.                    *)
(***************************************************************************)
EXTENDS Integers, Sequences, FiniteSets, TLC

\* ------------------------------------------------------------------ bounds

\* Largest totalChunks a client declares; chunk numbers range over
\* 0 .. MaxTotal-1.
MaxTotal == 2

\* Number of upload requests the clients send in one run.
MaxRequests == 3

\* Number of upload requests that can be in flight at the same time.
MaxInFlight == 2

\* ----------------------------------------------------------------- strings

UpperCase ==
    << "A", "B", "C", "D", "E", "F", "G", "H", "I", "J", "K", "L", "M",
       "N", "O", "P", "Q", "R", "S", "T", "U", "V", "W", "X", "Y", "Z" >>

LowerCase ==
    << "a", "b", "c", "d", "e", "f", "g", "h", "i", "j", "k", "l", "m",
       "n", "o", "p", "q", "r", "s", "t", "u", "v", "w", "x", "y", "z" >>

\* str.lower() on one character.
LowerChar(c) ==
    IF \E i \in 1..26 : UpperCase[i] = c
    THEN LowerCase[CHOOSE i \in 1..26 : UpperCase[i] = c]
    ELSE c

\* str.lower()
Lower(s) == [i \in 1..Len(s) |-> LowerChar(s[i])]

\* str.endswith(suffix)
EndsWith(s, suffix) ==
    /\ Len(suffix) <= Len(s)
    /\ SubSeq(s, Len(s) - Len(suffix) + 1, Len(s)) = suffix

Digits == << "0", "1", "2", "3", "4", "5", "6", "7", "8", "9" >>

RECURSIVE NatToStr(_)
NatToStr(n) ==
    IF n < 10 THEN << Digits[n + 1] >>
    ELSE NatToStr(n \div 10) \o << Digits[(n % 10) + 1] >>

\* str(int), as the f-string formats chunk_number.
IntToStr(n) == IF n < 0 THEN << "-" >> \o NatToStr(0 - n) ELSE NatToStr(n)

\* The check of line 237.
AllowedFileType(name) ==
    \/ EndsWith(Lower(name), << ".", "s", "v", "s" >>)
    \/ EndsWith(Lower(name), << ".", "t", "i", "f", "f" >>)
    \/ EndsWith(Lower(name), << ".", "t", "i", "f" >>)

\* f"{name}_{chunk_number}": the name of a chunk's scratch file in TMP_DIR.
ChunkFileName(name, chunk_number) ==
    name \o << "_" >> \o IntToStr(chunk_number)

\* The file that open() and os.remove() reach through a path below a
\* directory: a leading "./" component names the directory itself, so
\* "./x" and "x" are one file.
RECURSIVE Resolve(_)
Resolve(path) ==
    IF Len(path) >= 2 /\ path[1] = "." /\ path[2] = "/"
    THEN Resolve(SubSeq(path, 3, Len(path)))
    ELSE path

\* The file f"{settings.TMP_DIR}/{name}_{chunk_number}" of lines 247, 257
\* and 260.
ScratchFile(name, chunk_number) == Resolve(ChunkFileName(name, chunk_number))

\* The file f"{settings.IMPORT_DIR}/public/{name}" of line 254.
DestFile(name) == Resolve(name)

\* ------------------------------------------------------------------ inputs

\* The `name` form fields the clients send.
UploadNames ==
    { << "a", ".", "T", "i", "f" >>,
      << "a", ".", "t", "x", "t" >>,
      << "t", "i", "f", "f" >> }

ChunkNumbers == 0 .. (MaxTotal - 1)

TotalChunks == 1 .. MaxTotal

\* The bytes of the uploaded part. upload_file never looks into them, so
\* every request carries bytes of its own, and no two deliveries can be
\* mistaken for each other: the i-th request sent carries the byte i,
\* MaxRequests + 1 - i times (a later delivery is shorter than an earlier).
Payload(i) == [j \in 1..(MaxRequests + 1 - i) |-> i]

Slots == 1 .. MaxInFlight

\* Most save requests suspended in `await request.json()` at one time.
MaxSaving == 2

\* ------------------------------------------------------------------- state

VARIABLES
    tmpDir,      \* TMP_DIR: scratch file name -> bytes
    importDir,   \* IMPORT_DIR/public: file name -> bytes
    publicDir,   \* whether IMPORT_DIR/public exists
    req,         \* the upload requests in flight, one record per slot
    answer,      \* the answer on its way to the client, if any
    nreq,        \* number of upload requests sent so far
    latest,      \* scratch file name -> the payload of the last write (248)
                 \* to it, and the number of writes to the file since it
                 \* was created
    sequential,  \* name -> no two requests of that name overlapped so far
    run,         \* name -> the in-order delivery run of that name so far
    failure      \* the last completion that failed: its name and total, the
                 \* index it failed at and the number of requests sent then

\* The slide store and its handlers.
VARIABLES
    slideDir,    \* SLIDE_DIR: path below the root -> the file or directory
    SAVE,        \* settings.SAVE
    reply,       \* the answer of a store handler on its way to the client
    saving       \* path -> the number (above 0) of save requests for it
                 \* that are suspended in `await request.json()` (207)

uploadVars ==
    << tmpDir, importDir, publicDir, req, answer, nreq, latest, sequential,
       run, failure >>

storeVars == << slideDir, SAVE, reply, saving >>

vars ==
    << tmpDir, importDir, publicDir, req, answer, nreq, latest, sequential,
       run, failure, slideDir, SAVE, reply, saving >>

\* A slot with no request, and the fields of a request.
\*   pc         "idle"    no request
\*              "reading" suspended in `await file.read()` (248), the scratch
\*                        file open for writing
\*              "opening" chunk written, isLast: before line 252
\*              "concat"  in the loop of lines 256-261, dest open
\*   chunk      the loop variable of line 255
\*   orphan     the scratch file this request holds open was removed
\*   opened     the request opened the destination (254)
\*   peerOpened another last-chunk request of the same name opened the
\*              destination while this one was in flight
NoRequest ==
    [ pc |-> "idle", name |-> << >>, chunk_number |-> 0, total_chunks |-> 0,
      payload |-> << >>, chunk |-> 0, orphan |-> FALSE, opened |-> FALSE,
      peerOpened |-> FALSE ]

\* No answer given yet, and the fields of an answer: the request it answers,
\* the status code and the message of the body.
NoAnswer ==
    [ name |-> << >>, chunk_number |-> 0, total_chunks |-> 0,
      opened |-> FALSE, peerOpened |-> FALSE, status |-> 0, message |-> "" ]

NoRun == [ total |-> 0, next |-> 0, bytes |-> << >> ]

BrokenRun == [ total |-> 0, next |-> -1, bytes |-> << >> ]

\* No completion has failed.
NoFailure == [ name |-> << >>, total |-> 0, k |-> -1, at |-> 0 ]

\* isLast of line 240.
isLast(r) == (r.chunk_number + 1) = r.total_chunks

\* The handler of some other request is running between two awaits: the
\* event loop runs nothing else until it suspends or returns.
LoopBusy(s) ==
    \/ \E t \in Slots \ {s} : req[t].pc \in {"opening", "concat"}
    \/ answer # NoAnswer

InFlight(name) ==
    { t \in Slots : req[t].name = name /\ req[t].pc # "idle" }

\* The slot a new request takes: the first free one.
FreeSlot(s) ==
    /\ req[s].pc = "idle"
    /\ \A t \in Slots : t < s => req[t].pc # "idle"

\* ------------------------------------------------------------------ files

\* OpenWb without the truncation (as open(path, "ab") would do).
OpenWbKeep(dir, path) ==
    [ p \in (DOMAIN dir) \cup {path} |->
        IF p \in DOMAIN dir THEN dir[p] ELSE << >> ]

\* open(path, "wb"): create the file or truncate it.
OpenWb(dir, path) ==
    [ p \in (DOMAIN dir) \cup {path} |-> IF p = path THEN << >> ELSE dir[p] ]

\* write(data) at offset 0 through a handle opened before: the bytes replace
\* those at the same offsets, what lies beyond them stays.
WriteAt0(dir, path, data) ==
    [ dir EXCEPT ![path] = data \o SubSeq(@, Len(data) + 1, Len(@)) ]

\* AppendTo writing in front of what the file holds.
AppendToFront(dir, path, data) == [ dir EXCEPT ![path] = data \o @ ]

\* write(data) at the end of the file.
AppendTo(dir, path, data) == [ dir EXCEPT ![path] = @ \o data ]

\* Remove leaving the file where it is.
RemoveNothing(dir, path) == dir

\* os.remove(path)
Remove(dir, path) == [ p \in (DOMAIN dir) \ {path} |-> dir[p] ]

\* No answer of a store handler, and the fields of one: the handler and its
\* argument (location, file or sample: a path below SLIDE_DIR), the body of
\* the request, the status code, the message, the samples of the catalog
\* and how the delete utility ended ("none": it was not run); the save flag
\* and the palette of the catalog, the data used (in hundredths of a GB) of
\* the statistics, the channel and gain lists of a tile request.
NoReply ==
    [ endpoint |-> "", arg |-> << >>, body |-> "", status |-> 0,
      message |-> "", samples |-> << >>, rm |-> "none",
      save |-> FALSE, colors |-> << >>, dataUsed |-> 0,
      chs |-> << >>, gains |-> << >> ]

\* No save request is suspended.
NoSaving == << >>

UploadInit ==
    /\ tmpDir = << >>
    /\ importDir = << >>
    /\ publicDir = FALSE
    /\ req = [ s \in Slots |-> NoRequest ]
    /\ answer = NoAnswer
    /\ nreq = 0
    /\ latest = << >>
    /\ sequential = [ n \in UploadNames |-> TRUE ]
    /\ run = [ n \in UploadNames |-> NoRun ]
    /\ failure = NoFailure

\* The upload handler with an empty slide store.
Init ==
    /\ UploadInit
    /\ slideDir = << >>
    /\ SAVE = FALSE
    /\ reply = NoReply
    /\ saving = NoSaving

\* ----------------------------------------------------------------- upload

\* The answer to request r.
Answer(r, status, message) ==
    [ name |-> r.name, chunk_number |-> r.chunk_number,
      total_chunks |-> r.total_chunks, opened |-> r.opened,
      peerOpened |-> r.peerOpened, status |-> status, message |-> message ]

\* The record of writes when the scratch file `path` is opened: a file that
\* is created has not been written.
OpenedForWrite(path) ==
    [ p \in DOMAIN latest |->
        IF p = path /\ path \notin DOMAIN tmpDir
        THEN [ latest[p] EXCEPT !.count = 0 ]
        ELSE latest[p] ]

\* The in-order run of a name after one more accepted delivery.
NextRun(old, chunk_number, total_chunks, payload) ==
    IF old.next = 0
    THEN IF chunk_number = 0
         THEN [ total |-> total_chunks, next |-> 1, bytes |-> payload ]
         ELSE BrokenRun
    ELSE IF /\ old.next > 0
            /\ old.next < old.total
            /\ total_chunks = old.total
            /\ chunk_number = old.next
         THEN [ total |-> old.total, next |-> old.next + 1,
                bytes |-> old.bytes \o payload ]
         ELSE BrokenRun

\* UploadStart with the check of the name left out.
UploadStartUnchecked(s, name, chunk_number, total_chunks, payload) ==
    /\ FreeSlot(s)
    /\ ~LoopBusy(s)
    /\ nreq' = nreq + 1
    /\ UNCHANGED storeVars
    /\ UNCHANGED failure
    /\ tmpDir' = OpenWb(tmpDir, ScratchFile(name, chunk_number))
    /\ req' = [ req EXCEPT ![s] =
                  [ NoRequest EXCEPT
                      !.pc = "reading", !.name = name,
                      !.chunk_number = chunk_number,
                      !.total_chunks = total_chunks,
                      !.payload = payload ] ]
    /\ sequential' = [ sequential EXCEPT ![name] = @ /\ InFlight(name) = {} ]
    /\ run' = [ run EXCEPT ![name] =
                  NextRun(@, chunk_number, total_chunks, payload) ]
    /\ latest' = OpenedForWrite(ScratchFile(name, chunk_number))
    /\ UNCHANGED << importDir, publicDir, answer >>

\* Lines 237-247: a request arrives; its name is checked, and the scratch
\* file of an accepted request is opened for writing. The handler then
\* suspends in `await file.read()`.
UploadStart(s, name, chunk_number, total_chunks, payload) ==
    /\ FreeSlot(s)
    /\ ~LoopBusy(s)
    /\ nreq' = nreq + 1
    /\ UNCHANGED storeVars
    /\ UNCHANGED failure
    /\ IF ~AllowedFileType(name)
       THEN /\ answer' =
                 Answer([ NoRequest EXCEPT
                            !.name = name, !.chunk_number = chunk_number,
                            !.total_chunks = total_chunks ],
                        400, "Invalid file type")
            /\ UNCHANGED << tmpDir, importDir, publicDir, req, latest,
                            sequential, run >>
       ELSE /\ tmpDir' = OpenWb(tmpDir, ScratchFile(name, chunk_number))
            /\ req' = [ req EXCEPT ![s] =
                          [ NoRequest EXCEPT
                              !.pc = "reading", !.name = name,
                              !.chunk_number = chunk_number,
                              !.total_chunks = total_chunks,
                              !.payload = payload ] ]
            /\ sequential' =
                 [ sequential EXCEPT ![name] = @ /\ InFlight(name) = {} ]
            /\ run' = [ run EXCEPT ![name] =
                          NextRun(@, chunk_number, total_chunks, payload) ]
            /\ latest' = OpenedForWrite(ScratchFile(name, chunk_number))
            /\ UNCHANGED << importDir, publicDir, answer >>

\* Lines 248-251 and 267: the body was read; it is written through the
\* handle opened at 247 and the file is closed. A request that is not the
\* last-indexed one answers.
WriteChunk(s) ==
    LET r == req[s]
        path == ScratchFile(r.name, r.chunk_number)
    IN  /\ r.pc = "reading"
        /\ ~LoopBusy(s)
        /\ UNCHANGED storeVars
        /\ UNCHANGED failure
        /\ IF r.orphan
           THEN UNCHANGED << tmpDir, latest >>
           ELSE /\ tmpDir' = WriteAt0(tmpDir, path, r.payload)
                /\ latest' = [ p \in (DOMAIN latest) \cup {path} |->
                                 IF p = path
                                 THEN [ payload |-> r.payload,
                                        count |-> IF p \in DOMAIN latest
                                                  THEN latest[p].count + 1
                                                  ELSE 1 ]
                                 ELSE latest[p] ]
        /\ IF isLast(r)
           THEN /\ req' = [ req EXCEPT ![s] = [ r EXCEPT !.pc = "opening" ] ]
                /\ UNCHANGED answer
           ELSE /\ req' = [ req EXCEPT ![s] = NoRequest ]
                /\ answer' = Answer(r, 200, "Chunk Uploaded")
        /\ UNCHANGED << importDir, publicDir, nreq, sequential, run >>

\* Lines 252-255: the destination directory is made and the destination
\* opened for writing.
OpenDest(s) ==
    LET r == req[s]
    IN  /\ r.pc = "opening"
        /\ ~LoopBusy(s)
        /\ UNCHANGED storeVars
        /\ UNCHANGED failure
        /\ publicDir' = TRUE
        /\ importDir' = OpenWb(importDir, DestFile(r.name))
        /\ req' = [ t \in Slots |->
                      IF t = s
                      THEN [ r EXCEPT !.pc = "concat", !.chunk = 0,
                                      !.opened = TRUE ]
                      ELSE IF /\ req[t].pc = "reading"
                              /\ req[t].name = r.name
                              /\ isLast(req[t])
                           THEN [ req[t] EXCEPT !.peerOpened = TRUE ]
                           ELSE req[t] ]
        /\ UNCHANGED << tmpDir, answer, nreq, latest, sequential, run >>

\* Lines 256-261, one turn of the loop: the chunk file is read, appended to
\* the destination and removed.
ConcatChunk(s) ==
    LET r == req[s]
        path == ScratchFile(r.name, r.chunk)
    IN  /\ r.pc = "concat"
        /\ ~LoopBusy(s)
        /\ UNCHANGED storeVars
        /\ UNCHANGED failure
        /\ r.chunk < r.total_chunks
        /\ path \in DOMAIN tmpDir
        /\ importDir' = AppendTo(importDir, DestFile(r.name), tmpDir[path])
        /\ tmpDir' = Remove(tmpDir, path)
        /\ req' = [ t \in Slots |->
                      IF t = s
                      THEN [ r EXCEPT !.chunk = r.chunk + 1 ]
                      ELSE IF /\ req[t].pc = "reading"
                              /\ ScratchFile(req[t].name,
                                               req[t].chunk_number) = path
                           THEN [ req[t] EXCEPT !.orphan = TRUE ]
                           ELSE req[t] ]
        /\ UNCHANGED << publicDir, answer, nreq, latest, sequential, run >>

\* ConcatMissing going on with the next index instead of failing.
ConcatMissingSkip(s) ==
    LET r == req[s]
        path == ScratchFile(r.name, r.chunk)
    IN  /\ r.pc = "concat"
        /\ ~LoopBusy(s)
        /\ UNCHANGED storeVars
        /\ r.chunk < r.total_chunks
        /\ path \notin DOMAIN tmpDir
        /\ req' = [ req EXCEPT ![s] = [ r EXCEPT !.chunk = r.chunk + 1 ] ]
        /\ UNCHANGED << tmpDir, importDir, publicDir, answer, nreq, latest,
                        sequential, run, failure >>

\* Line 257 on a chunk file that does not exist: open raises
\* FileNotFoundError, the destination is closed with what was appended so
\* far, and the request fails with 500.
ConcatMissing(s) ==
    LET r == req[s]
        path == ScratchFile(r.name, r.chunk)
    IN  /\ r.pc = "concat"
        /\ ~LoopBusy(s)
        /\ r.chunk < r.total_chunks
        /\ path \notin DOMAIN tmpDir
        /\ UNCHANGED storeVars
        /\ req' = [ req EXCEPT ![s] = NoRequest ]
        /\ answer' = Answer(r, 500, "Internal Server Error")
        /\ failure' = [ name |-> r.name, total |-> r.total_chunks,
                        k |-> r.chunk, at |-> nreq ]
        /\ UNCHANGED << tmpDir, importDir, publicDir, nreq, latest,
                        sequential, run >>

\* Lines 256 and 262-265: the loop ends, the destination is closed and the
\* request answers.
FinishUpload(s) ==
    LET r == req[s]
    IN  /\ r.pc = "concat"
        /\ ~LoopBusy(s)
        /\ UNCHANGED storeVars
        /\ UNCHANGED failure
        /\ r.chunk >= r.total_chunks
        /\ req' = [ req EXCEPT ![s] = NoRequest ]
        /\ answer' = Answer(r, 200, "File Uploaded")
        /\ UNCHANGED << tmpDir, importDir, publicDir, nreq, latest,
                        sequential, run >>

\* The answer has left: the client has it.
AnswerSent ==
    /\ answer # NoAnswer
    /\ answer' = NoAnswer
    /\ UNCHANGED storeVars
    /\ UNCHANGED failure
    /\ UNCHANGED << tmpDir, importDir, publicDir, req, nreq, latest,
                    sequential, run >>

Next ==
    \/ /\ nreq < MaxRequests
       /\ \E s \in Slots, name \in UploadNames, chunk_number \in ChunkNumbers,
             total_chunks \in TotalChunks, payload \in {Payload(nreq + 1)} :
             UploadStart(s, name, chunk_number, total_chunks, payload)
    \/ \E s \in Slots : WriteChunk(s)
    \/ \E s \in Slots : OpenDest(s)
    \/ \E s \in Slots : ConcatChunk(s)
    \/ \E s \in Slots : ConcatMissing(s)
    \/ \E s \in Slots : FinishUpload(s)
    \/ AnswerSent

Spec == Init /\ [][Next]_vars

\* ------------------------------------------------------ upload: properties

\* The scratch files of a name: the files of TMP_DIR called name_<...>.
ScratchFilesOf(name) ==
    { p \in DOMAIN tmpDir :
        /\ Len(p) > Len(name) + 1
        /\ SubSeq(p, 1, Len(name) + 1) = name \o << "_" >> }

\* The last written payloads of chunks 0 .. n-1 of a name, in index order.
RECURSIVE ConcatLatest(_, _)
ConcatLatest(name, n) ==
    IF n = 0 THEN << >>
    ELSE ConcatLatest(name, n - 1)
           \o latest[ScratchFile(name, n - 1)].payload

\* Every index 0 .. n-1 of a name has been written at least once.
AllArrived(name, n) ==
    \A i \in 0 .. (n - 1) : ScratchFile(name, i) \in DOMAIN latest

\* A completion step of the name is running.
Completing(name) ==
    \E s \in Slots : req[s].name = name /\ req[s].pc \in {"opening", "concat"}

\* C1: once chunks 0, 1, ..., N-1 of a name have been uploaded in index
\* order, each with totalChunks = N and each request finishing before the
\* next starts, the final artifact is the concatenation of the N payloads in
\* index order and no scratch file of the name is left.
C1_InOrderUpload ==
    \A n \in UploadNames :
        ( /\ run[n].total >= 1
          /\ run[n].next = run[n].total
          /\ sequential[n]
          /\ InFlight(n) = {} )
        => /\ n \in DOMAIN importDir
           /\ importDir[n] = run[n].bytes
           /\ ScratchFilesOf(n) = {}

\* C1's case: an in-order upload of at least two chunks has finished.
C1_Witness ==
    \E n \in UploadNames :
        /\ run[n].total >= 2
        /\ run[n].next = run[n].total
        /\ sequential[n]
        /\ InFlight(n) = {}
        /\ answer.message = "File Uploaded"

\* C2: the concatenation is started only after all chunk indices
\* 0 .. N-1 of the upload have arrived, never while some index is missing.
C2_StartsOnlyWhenAllArrived ==
    \A s \in Slots :
        (req[s].pc = "concat" /\ req[s].chunk = 0)
        => AllArrived(req[s].name, req[s].total_chunks)

\* C3: in every state where no completion step is running, the destination
\* file either does not exist or is the index-order concatenation of the
\* payloads of chunks 0 .. totalChunks-1 (for some declared totalChunks).
C3_DestinationNeverCorrupted ==
    \A n \in DOMAIN importDir :
        ~Completing(n)
        => \E t \in TotalChunks :
              /\ AllArrived(n, t)
              /\ importDir[n] = ConcatLatest(n, t)

\* C4: when the deliveries of a name come one after the other, a scratch
\* file that no request holds open holds exactly the bytes of the latest
\* delivery of its index, however often the index was delivered, and a
\* completion step that has consumed all indices has built the destination
\* from the latest delivery of each index.
C4_RedeliveryOverwrites ==
    \A n \in UploadNames :
        sequential[n]
        => /\ \A p \in ScratchFilesOf(n) :
                 (\A s \in Slots :
                     ~( /\ req[s].pc = "reading"
                        /\ ScratchFile(req[s].name, req[s].chunk_number) = p ))
                 => /\ p \in DOMAIN latest
                    /\ tmpDir[p] = latest[p].payload
           /\ \A s \in Slots :
                 ( /\ req[s].name = n
                   /\ req[s].pc = "concat"
                   /\ req[s].chunk = req[s].total_chunks )
                 => importDir[n] = ConcatLatest(n, req[s].total_chunks)

\* C4's case: a completion step has consumed all indices of an upload of
\* which index 0 was delivered twice before the last-indexed chunk arrived.
C4_Witness ==
    \E s \in Slots, n \in UploadNames :
        /\ sequential[n]
        /\ req[s].name = n
        /\ req[s].pc = "concat"
        /\ req[s].total_chunks >= 2
        /\ req[s].chunk = req[s].total_chunks
        /\ latest[ScratchFile(n, 0)].count >= 2
        /\ importDir[n] = ConcatLatest(n, req[s].total_chunks)

\* C5: of two last-chunk requests of one name that are handled at the same
\* time, at most one opens the destination (attempts the concatenation).
C5_CompletionSerialized ==
    \A s \in Slots : ~(req[s].opened /\ req[s].peerOpened)

\* C6: a request whose name has none of the accepted extensions is answered
\* with 400 at once, in a step that writes no scratch file, does not touch
\* the destination and starts no handler; no request with such a name is
\* ever in flight.
C6_RejectedPersistsNothing ==
    /\ [][ ( /\ answer' # answer
             /\ answer' # NoAnswer
             /\ ~AllowedFileType(answer'.name) )
           => /\ answer'.status = 400
              /\ UNCHANGED << tmpDir, importDir, publicDir, req >> ]_vars
    /\ [](\A s \in Slots :
             req[s].pc # "idle" => AllowedFileType(req[s].name))
    /\ [](\A n \in UploadNames :
             ~AllowedFileType(n)
             => n \notin DOMAIN importDir /\ ScratchFilesOf(n) = {})

\* C6's case: a last-indexed chunk with a refused name has just been
\* answered while scratch files of an accepted upload exist.
C6_Witness ==
    /\ answer.status = 400
    /\ ~AllowedFileType(answer.name)
    /\ answer.chunk_number + 1 = answer.total_chunks
    /\ tmpDir # << >>

\* C7: every accepted request is answered with a success status; the answer
\* is "File Uploaded", after a completion, if and only if
\* chunkNumber + 1 = totalChunks, and "Chunk Uploaded" with the destination
\* left alone otherwise.
C7_AnswerByLastIndex ==
    (answer # NoAnswer /\ AllowedFileType(answer.name))
    => /\ answer.status = 200
       /\ isLast(answer) <=> (answer.message = "File Uploaded" /\ answer.opened)
       /\ ~isLast(answer) => (answer.message = "Chunk Uploaded" /\ ~answer.opened)

\* ------------------------------------------------------------- slide store

\* Names of the slide store.
Public == << "p", "u", "b", "l", "i", "c" >>

Nowhere == << "n", "o", "n", "e" >>

SampleJson == << "s", "a", "m", "p", "l", "e", ".", "j", "s", "o", "n" >>

ZarrSuffix == << ".", "z", "a", "r", "r" >>

\* The entries SLIDE_DIR/public may hold.
EntryNames ==
    { << "a", ".", "z", "a", "r", "r" >>,
      << "b", ".", "z", "a", "r", "r" >>,
      << "c", ".", "Z", "A", "R", "R" >> }

\* The `location` query parameters the clients send.
Locations == { Public, Nowhere }

\* The paths the clients name in deleteSample.
Targets ==
    { << Public >>, << Nowhere >> } \cup { << Public, e >> : e \in EntryNames }

\* The paths the clients name in /save/{file}.
SaveTargets ==
    { << Nowhere >>,
      << Public, << "a", ".", "z", "a", "r", "r" >> >>,
      << Public, << "b", ".", "z", "a", "r", "r" >> >> }

\* The request bodies of /save, and the sample.json texts found on disk.
Bodies == { "[1,2]", "{}", "{oops" }

SidecarTexts == { "[1, 2]", "{oops" }

\* A JSON value: an object (here the empty one) or an array of integers.
EmptyObject == [ type |-> "object", items |-> << >> ]

Array(items) == [ type |-> "array", items |-> items ]

\* json.loads / json.load / request.json(): the value, or ok = FALSE where
\* json.JSONDecodeError is raised.
JsonLoads(text) ==
    CASE text = "{}"     -> [ ok |-> TRUE, value |-> EmptyObject ]
      [] text = "[]"     -> [ ok |-> TRUE, value |-> Array(<< >>) ]
      [] text = "[ ]"    -> [ ok |-> TRUE, value |-> Array(<< >>) ]
      [] text = "[1,2]"  -> [ ok |-> TRUE, value |-> Array(<< 1, 2 >>) ]
      [] text = "[1, 2]" -> [ ok |-> TRUE, value |-> Array(<< 1, 2 >>) ]
      [] OTHER           -> [ ok |-> FALSE, value |-> EmptyObject ]

\* json.dump: the text of a value, with ", " between the items.
JsonDumps(value) ==
    CASE value = EmptyObject          -> "{}"
      [] value = Array(<< >>)         -> "[]"
      [] value = Array(<< 1, 2 >>)    -> "[1, 2]"

\* A directory; `reader` tells whether OmeZarrConnector opens it ("ok") or
\* raises ("fail"). A file and its text.
DirNode(reader) == [ kind |-> "dir", reader |-> reader, data |-> "" ]

FileNode(text) == [ kind |-> "file", reader |-> "none", data |-> text ]

\* What an entry of SLIDE_DIR/public can be when the server starts.
EntryStates ==
    { [ kind |-> "absent", reader |-> "none", sidecar |-> "none" ],
      [ kind |-> "file", reader |-> "none", sidecar |-> "none" ] }
    \cup
    { [ kind |-> "dir", reader |-> r, sidecar |-> t ] :
        r \in { "ok", "fail" }, t \in { "none" } \cup SidecarTexts }

\* The slide store with the given entries in SLIDE_DIR/public.
StoreOf(cfg) ==
    LET present == { e \in EntryNames : cfg[e].kind # "absent" }
        withSidecar ==
            { e \in EntryNames : cfg[e].kind = "dir" /\ cfg[e].sidecar # "none" }
        paths == { << Public >> }
                   \cup { << Public, e >> : e \in present }
                   \cup { << Public, e, SampleJson >> : e \in withSidecar }
    IN  [ p \in paths |->
            IF Len(p) = 1 THEN DirNode("none")
            ELSE IF Len(p) = 2
                 THEN IF cfg[p[2]].kind = "dir"
                      THEN DirNode(cfg[p[2]].reader)
                      ELSE FileNode("")
                 ELSE FileNode(cfg[p[2]].sidecar) ]

\* os.path.exists, os.path.isdir / DirEntry.is_dir
Exists(path) == path \in DOMAIN slideDir

IsDir(path) == Exists(path) /\ slideDir[path].kind = "dir"

\* os.scandir(path): the entries of a directory.
Children(path) ==
    { p \in DOMAIN slideDir :
        Len(p) = Len(path) + 1 /\ SubSeq(p, 1, Len(path)) = path }

\* The orders in which os.scandir may yield the entries.
ScanOrders(path) ==
    LET c == Children(path)
        n == Cardinality(c)
    IN  { o \in [ 1..n -> c ] : \A i, j \in 1..n : o[i] = o[j] => i = j }

\* rm -rf path
RmTree(dir, path) ==
    [ p \in { q \in DOMAIN dir :
                ~(Len(q) >= Len(path) /\ SubSeq(q, 1, Len(path)) = path) }
        |-> dir[p] ]

\* open(path, 'w') and json.dump(data, f)
WriteText(dir, path, text) ==
    [ p \in (DOMAIN dir) \cup {path} |->
        IF p = path THEN FileNode(text) ELSE dir[p] ]

\* The loop of lines 94-113 over the entries in the order scandir yields
\* them: the datasets found, or raised = TRUE where OmeZarrConnector or
\* json.load raises.
RECURSIVE ScanEntries(_, _)
ScanEntries(entries, zarr_datasets) ==
    IF entries = << >>
    THEN [ raised |-> FALSE, datasets |-> zarr_datasets ]
    ELSE LET path == Head(entries)
             name == path[Len(path)]
             sample_json_path == path \o << SampleJson >>
         IN  IF ~(IsDir(path) /\ EndsWith(name, ZarrSuffix))
             THEN ScanEntries(Tail(entries), zarr_datasets)
             ELSE IF slideDir[path].reader # "ok"
             THEN [ raised |-> TRUE, datasets |-> << >> ]
             ELSE IF ~Exists(sample_json_path)
             THEN ScanEntries(
                      Tail(entries),
                      zarr_datasets \o
                        << [ name |-> SubSeq(name, 1, Len(name) - 5),
                             details |-> EmptyObject,
                             metadata |-> path ] >>)
             ELSE IF ~JsonLoads(slideDir[sample_json_path].data).ok
             THEN [ raised |-> TRUE, datasets |-> << >> ]
             ELSE ScanEntries(
                      Tail(entries),
                      zarr_datasets \o
                        << [ name |-> SubSeq(name, 1, Len(name) - 5),
                             details |->
                               JsonLoads(slideDir[sample_json_path].data).value,
                             metadata |-> path ] >>)

\* find_zarr_datasets(base_dir): os.scandir raises where base_dir is no
\* directory.
find_zarr_datasets(base_dir, order) ==
    IF ~IsDir(base_dir)
    THEN [ raised |-> TRUE, datasets |-> << >> ]
    ELSE ScanEntries(order, << >>)

\* The entry whose suffix is not ".zarr", and what it is when the server
\* starts: absent or a directory.
UpperCaseEntry == << "c", ".", "Z", "A", "R", "R" >>

UpperCaseEntryStates ==
    { [ kind |-> "absent", reader |-> "none", sidecar |-> "none" ],
      [ kind |-> "dir", reader |-> "ok", sidecar |-> "none" ] }

\* The slide store when the server starts: SLIDE_DIR/public with any
\* entries, or an empty SLIDE_DIR.
InitStore ==
    /\ UploadInit
    /\ \/ slideDir = << >>
       \/ \E cfg \in [ EntryNames -> EntryStates ] :
             /\ cfg[UpperCaseEntry] \in UpperCaseEntryStates
             /\ slideDir = StoreOf(cfg)
    /\ SAVE \in BOOLEAN
    /\ reply = NoReply
    /\ saving = NoSaving

\* settings.COLORS (line 39).
COLORS == << "red", "green", "blue", "yellow", "magenta", "cyan", "white" >>

\* samples without the try / except around find_zarr_datasets.
samples_unguarded(location, order) ==
    LET search_dir == << location >>
        found == find_zarr_datasets(search_dir, order)
    IN  /\ reply = NoReply
        /\ reply' = IF found.raised
                     THEN [ NoReply EXCEPT
                              !.endpoint = "samples", !.arg = search_dir,
                              !.status = 500,
                              !.message = "Internal Server Error" ]
                     ELSE [ NoReply EXCEPT
                              !.endpoint = "samples", !.arg = search_dir,
                              !.status = 200,
                              !.samples = found.datasets,
                              !.save = SAVE, !.colors = COLORS ]
        /\ UNCHANGED << slideDir, SAVE, saving >>
        /\ UNCHANGED uploadVars

\* GET /samples.json (lines 123-143).
samples(location, order) ==
    LET search_dir == << location >>
        found == find_zarr_datasets(search_dir, order)
    IN  /\ reply = NoReply
        /\ reply' = [ NoReply EXCEPT
                        !.endpoint = "samples", !.arg = search_dir,
                        !.status = 200,
                        !.samples = IF found.raised THEN << >>
                                    ELSE found.datasets,
                        !.save = SAVE, !.colors = COLORS ]
        /\ UNCHANGED << slideDir, SAVE, saving >>
        /\ UNCHANGED uploadVars

\* The save requests, all paths together, that are suspended at line 207.
Suspended ==
    Cardinality(UNION { { << t, i >> : i \in 1 .. saving[t] } :
                          t \in DOMAIN saving })

\* One more, one less suspended save request for the path.
Suspend(file) ==
    [ t \in (DOMAIN saving) \cup { file } |->
        IF t \in DOMAIN saving
        THEN IF t = file THEN saving[t] + 1 ELSE saving[t]
        ELSE 1 ]

Resume(file) ==
    [ t \in { u \in DOMAIN saving : u # file \/ saving[u] > 1 } |->
        IF t = file THEN saving[t] - 1 ELSE saving[t] ]

\* save_slide_settings without the test of settings.SAVE.
save_slide_settings_unguarded(file, body) ==
    /\ reply = NoReply
    /\ Suspended < MaxSaving
    /\ saving' = Suspend(file)
    /\ UNCHANGED << slideDir, SAVE, reply >>
    /\ UNCHANGED uploadVars

\* POST /save/{file} (lines 200-207 and 217-218): with save mode enabled the
\* handler suspends in `await request.json()` until the body has arrived;
\* other handlers run meanwhile. With save mode disabled it answers at once.
save_slide_settings(file, body) ==
    /\ reply = NoReply
    /\ IF SAVE
       THEN /\ Suspended < MaxSaving
            /\ saving' = Suspend(file)
            /\ UNCHANGED reply
       ELSE /\ reply' = [ NoReply EXCEPT
                            !.endpoint = "save", !.arg = file,
                            !.body = body, !.status = 403,
                            !.message = "SAVE BLOCKED" ]
            /\ UNCHANGED saving
    /\ UNCHANGED << slideDir, SAVE >>
    /\ UNCHANGED uploadVars

\* Lines 207-216 of save_slide_settings: the body has arrived; it is parsed,
\* written to sample.json and the request answers.
save_slide_settings_resume(file, body) ==
    LET file_path == file \o << SampleJson >>
        data == JsonLoads(body)
    IN  /\ reply = NoReply
        /\ file \in DOMAIN saving
        /\ saving' = Resume(file)
        /\ IF ~data.ok
           THEN /\ reply' = [ NoReply EXCEPT
                                !.endpoint = "save", !.arg = file,
                                !.body = body, !.status = 400,
                                !.message = "Invalid JSON" ]
                /\ UNCHANGED slideDir
           ELSE IF ~IsDir(file) \/ IsDir(file_path)
           THEN /\ reply' = [ NoReply EXCEPT
                                !.endpoint = "save", !.arg = file,
                                !.body = body, !.status = 500,
                                !.message = "Internal Server Error" ]
                /\ UNCHANGED slideDir
           ELSE /\ reply' = [ NoReply EXCEPT
                                !.endpoint = "save", !.arg = file,
                                !.body = body, !.status = 200,
                                !.message = "OK" ]
                /\ slideDir' =
                     WriteText(slideDir, file_path, JsonDumps(data.value))
        /\ UNCHANGED SAVE
        /\ UNCHANGED uploadVars

\* The files and directories at and below path.
Subtree(path) ==
    { q \in DOMAIN slideDir :
        Len(q) >= Len(path) /\ SubSeq(q, 1, Len(path)) = path }

\* What "rm -rf path" may leave behind: nothing, or, where it cannot
\* remove some entry, that entry and the directories above it; the rest it
\* removes.
Leftovers(path) ==
    { kept \in SUBSET Subtree(path) :
        \A q \in kept : \A i \in Len(path) .. Len(q) :
            SubSeq(q, 1, i) \in kept }

\* The directory after "rm -rf path" that left `kept` behind.
RmTreeKeeping(dir, path, kept) ==
    [ p \in { q \in DOMAIN dir :
                q \in kept
                \/ ~(Len(q) >= Len(path) /\ SubSeq(q, 1, Len(path)) = path) }
        |-> dir[p] ]

\* delete_sample with the exit status of the delete utility surfaced.
delete_sample_reporting(sample, started, kept) ==
    LET files_path == sample
    IN  /\ reply = NoReply
        /\ IF ~Exists(files_path)
           THEN /\ reply' = [ NoReply EXCEPT
                                !.endpoint = "deleteSample", !.arg = sample,
                                !.status = 404,
                                !.message = "Sample not found" ]
                /\ UNCHANGED slideDir
           ELSE IF ~started
           THEN /\ reply' = [ NoReply EXCEPT
                                !.endpoint = "deleteSample", !.arg = sample,
                                !.status = 500,
                                !.message = "Internal Server Error",
                                !.rm = "not started" ]
                /\ UNCHANGED slideDir
           ELSE /\ reply' = IF kept = {}
                            THEN [ NoReply EXCEPT
                                     !.endpoint = "deleteSample",
                                     !.arg = sample, !.status = 200,
                                     !.message = "Samples deleted",
                                     !.rm = "ok" ]
                            ELSE [ NoReply EXCEPT
                                     !.endpoint = "deleteSample",
                                     !.arg = sample, !.status = 500,
                                     !.message = "Delete failed",
                                     !.rm = "failed" ]
                /\ slideDir' = RmTreeKeeping(slideDir, files_path, kept)
        /\ UNCHANGED << SAVE, saving >>
        /\ UNCHANGED uploadVars

\* delete_sample without the test of line 313.
delete_sample_unchecked(sample, started, kept) ==
    /\ reply = NoReply
    /\ IF ~started
       THEN /\ reply' = [ NoReply EXCEPT
                            !.endpoint = "deleteSample", !.arg = sample,
                            !.status = 500,
                            !.message = "Internal Server Error",
                            !.rm = "not started" ]
            /\ UNCHANGED slideDir
       ELSE /\ reply' = [ NoReply EXCEPT
                            !.endpoint = "deleteSample", !.arg = sample,
                            !.status = 200, !.message = "Samples deleted",
                            !.rm = IF kept = {} THEN "ok" ELSE "failed" ]
            /\ slideDir' = RmTreeKeeping(slideDir, sample, kept)
    /\ UNCHANGED << SAVE, saving >>
    /\ UNCHANGED uploadVars

\* POST /deleteSample (lines 306-324). `started` is whether settings.RM_LOC
\* names a program that can be run (subprocess.run raises where it does
\* not); `kept` is what rm -rf leaves behind: nothing where it exits with 0.
delete_sample(sample, started, kept) ==
    LET files_path == sample
    IN  /\ reply = NoReply
        /\ IF ~Exists(files_path)
           THEN /\ reply' = [ NoReply EXCEPT
                                !.endpoint = "deleteSample", !.arg = sample,
                                !.status = 404,
                                !.message = "Sample not found" ]
                /\ UNCHANGED slideDir
           ELSE IF ~started
           THEN /\ reply' = [ NoReply EXCEPT
                                !.endpoint = "deleteSample", !.arg = sample,
                                !.status = 500,
                                !.message = "Internal Server Error",
                                !.rm = "not started" ]
                /\ UNCHANGED slideDir
           ELSE /\ reply' = [ NoReply EXCEPT
                                !.endpoint = "deleteSample", !.arg = sample,
                                !.status = 200,
                                !.message = "Samples deleted",
                                !.rm = IF kept = {} THEN "ok" ELSE "failed" ]
                /\ slideDir' = RmTreeKeeping(slideDir, files_path, kept)
        /\ UNCHANGED << SAVE, saving >>
        /\ UNCHANGED uploadVars

\* The list after list.remove(x): without the first element equal to x.
RECURSIVE ListRemove(_, _)
ListRemove(list, x) ==
    IF list = << >> THEN << >>
    ELSE IF Head(list) = x THEN Tail(list)
    ELSE << Head(list) >> \o ListRemove(Tail(list), x)

\* The loop of lines 288-291: "for folder in folders" visits folders[i]
\* for i = 1, 2, ... while i is within the list as it is then, and
\* folders.remove(folder) shortens that same list.
RECURSIVE FilterFolders(_, _)
FilterFolders(folders, i) ==
    IF i > Len(folders) THEN folders
    ELSE IF ~Exists(<< Public, folders[i], SampleJson >>)
         THEN FilterFolders(ListRemove(folders, folders[i]), i + 1)
         ELSE FilterFolders(folders, i + 1)

\* The 512-byte blocks that "du -s" may report (line 293).
DuBlocks == { 0, 3000000 }

\* round(blocks * 512 / 1024**3, 2) in hundredths of a GB (lines 294-296):
\* blocks * 512 * 100 / 2^30 = blocks * 25 / 2^19, rounded to the nearest
\* integer, a tie to the even one.
DataUsedGb(blocks) ==
    LET num == blocks * 25
        den == 524288
        q == num \div den
        r == num % den
    IN  IF 2 * r > den \/ (2 * r = den /\ q % 2 = 1) THEN q + 1 ELSE q

\* What line 293 gets from "du -s": a block count, or nothing (DU_LOC names
\* no program, or du prints no count); lines 293-294 raise on nothing.
DuOutputs ==
    { [ ok |-> TRUE, blocks |-> b ] : b \in DuBlocks }
      \cup { [ ok |-> FALSE, blocks |-> 0 ] }

\* POST /sampleStats (lines 271-301); order is the order of os.listdir.
sample_stats(order, du) ==
    LET files_path == << Public >>
        listed == [ i \in 1..Len(order) |-> order[i][Len(order[i])] ]
        IsFolder(f) == IsDir(files_path \o << f >>)
        folders == SelectSeq(listed, IsFolder)
    IN  /\ reply = NoReply
        /\ reply' = IF ~Exists(files_path)
                     THEN [ NoReply EXCEPT
                              !.endpoint = "sampleStats", !.arg = files_path,
                              !.status = 200 ]
                     ELSE IF ~du.ok
                     THEN [ NoReply EXCEPT
                              !.endpoint = "sampleStats", !.arg = files_path,
                              !.status = 500,
                              !.message = "Internal Server Error" ]
                     ELSE [ NoReply EXCEPT
                              !.endpoint = "sampleStats", !.arg = files_path,
                              !.status = 200,
                              !.samples = FilterFolders(folders, 1),
                              !.dataUsed = DataUsedGb(du.blocks) ]
        /\ UNCHANGED << slideDir, SAVE, saving >>
        /\ UNCHANGED uploadVars

\* str.split(sep) for a one-character separator: the pieces between the
\* separators, an empty piece where two separators meet or the text ends.
RECURSIVE Split(_, _)
Split(text, sep) ==
    IF \A i \in 1..Len(text) : text[i] # sep THEN << text >>
    ELSE LET i == CHOOSE k \in 1..Len(text) :
                     text[k] = sep /\ \A j \in 1..(k - 1) : text[j] # sep
         IN  << SubSeq(text, 1, i - 1) >>
                 \o Split(SubSeq(text, i + 1, Len(text)), sep)

\* int(x) of a piece without blanks: TRUE where it returns, FALSE where it
\* raises ValueError (an empty piece, a sign alone, a character that is not
\* a decimal digit).
IntParses(x) ==
    LET digits == IF x # << >> /\ x[1] \in { "+", "-" } THEN Tail(x) ELSE x
    IN  /\ digits # << >>
        /\ \A i \in 1..Len(digits) : \E d \in 1..Len(Digits) : digits[i] = Digits[d]

\* [int(x) for x in pieces] (lines 178, 181) raises on the first bad piece.
AllParse(pieces) == \A i \in 1..Len(pieces) : IntParses(pieces[i])

\* The dataset names, channel lists and gain lists of the tile requests.
TileFiles == { << "a" >>, << "b" >> }

TileChannels == { << "0", ";", "1" >>, << "0", ";", "x" >> }

TileGains == { << "1", "0", ";", "-", "5" >>, << "7", ";" >> }

\* GET .../{file}_files/{level}/{loc_x}_{loc_y}.jpeg (lines 158-198).
\* compose is how get_combined_image and the JPEG encoding end.
get_tile(location, chs, gains, file, compose) ==
    LET path_to_zarr == << location, file \o ZarrSuffix >>
        opens == IsDir(path_to_zarr) /\ slideDir[path_to_zarr].reader = "ok"
        channels == Split(chs, ";")
        intensities == Split(gains, ";")
        ok == /\ opens
              /\ AllParse(channels)
              /\ AllParse(intensities)
              /\ compose = "ok"
    IN  /\ reply = NoReply
        /\ reply' = IF ok
                     THEN [ NoReply EXCEPT
                              !.endpoint = "tile", !.arg = path_to_zarr,
                              !.chs = chs, !.gains = gains,
                              !.status = 200, !.message = "image/jpeg" ]
                     ELSE [ NoReply EXCEPT
                              !.endpoint = "tile", !.arg = path_to_zarr,
                              !.chs = chs, !.gains = gains,
                              !.status = 500,
                              !.message = "Internal Server Error" ]
        /\ UNCHANGED << slideDir, SAVE, saving >>
        /\ UNCHANGED uploadVars

\* The answer has left: the client has it.
ReplySent ==
    /\ reply # NoReply
    /\ reply' = NoReply
    /\ UNCHANGED << slideDir, SAVE, saving >>
    /\ UNCHANGED uploadVars

NextStore ==
    \/ \E location \in Locations :
          \E order \in ScanOrders(<< location >>) : samples(location, order)
    \/ \E file \in SaveTargets, body \in Bodies :
          save_slide_settings(file, body)
    \/ \E file \in SaveTargets, body \in Bodies :
          save_slide_settings_resume(file, body)
    \/ \E sample \in Targets, started \in BOOLEAN :
          \E kept \in Leftovers(sample) : delete_sample(sample, started, kept)
    \/ \E order \in ScanOrders(<< Public >>), du \in DuOutputs :
          sample_stats(order, du)
    \/ \E location \in { Public }, chs \in TileChannels, gains \in TileGains,
          file \in TileFiles, compose \in { "ok", "failed" } :
          get_tile(location, chs, gains, file, compose)
    \/ ReplySent

SpecStore == InitStore /\ [][NextStore]_vars

\* ------------------------------------------------- slide store: properties

\* The datasets of a directory that the catalog can open: the .zarr
\* directories the Pyramid Reader opens and whose sample.json, if there is
\* one, loads.
Openable(base_dir) ==
    { p \in Children(base_dir) :
        /\ IsDir(p)
        /\ EndsWith(p[Len(p)], ZarrSuffix)
        /\ slideDir[p].reader = "ok"
        /\ Exists(p \o << SampleJson >>)
           => JsonLoads(slideDir[p \o << SampleJson >>].data).ok }

\* C8: the catalog lists every dataset of the directory whose open succeeds,
\* whether or not the open of a sibling fails.
C8_CatalogFailureIsolation ==
    reply.endpoint = "samples"
    => \A p \in Openable(reply.arg) :
          \E i \in 1..Len(reply.samples) :
             reply.samples[i].name = SubSeq(p[Len(p)], 1, Len(p[Len(p)]) - 5)

\* C9: with save mode disabled every POST /save/{path} is answered with 403
\* "SAVE BLOCKED", whatever its body, and leaves the slide store as it was.
C9_SaveBlocked ==
    [][ (~SAVE /\ reply' # reply /\ reply'.endpoint = "save")
        => /\ reply'.status = 403
           /\ reply'.message = "SAVE BLOCKED"
           /\ slideDir' = slideDir ]_vars

\* C9's case: save mode is disabled and a request with a valid JSON body
\* for an existing dataset directory has been answered.
C9_Witness ==
    /\ ~SAVE
    /\ reply.endpoint = "save"
    /\ JsonLoads(reply.body).ok
    /\ Len(reply.arg) = 2
    /\ IsDir(reply.arg)
    /\ ~Exists(reply.arg \o << SampleJson >>)

\* C10: deleteSample on a path that does not exist is answered with 404,
\* does not run the delete utility and leaves the slide store as it was.
C10_DeleteMissing ==
    [][ ( /\ reply' # reply
          /\ reply'.endpoint = "deleteSample"
          /\ reply'.arg \notin DOMAIN slideDir )
        => /\ reply'.status = 404
           /\ reply'.message = "Sample not found"
           /\ reply'.rm = "none"
           /\ slideDir' = slideDir ]_vars

\* C10's case: a sample that does not exist was to be deleted from a store
\* that holds other samples.
C10_Witness ==
    /\ reply.endpoint = "deleteSample"
    /\ reply.status = 404
    /\ Len(reply.arg) = 2
    /\ ~Exists(reply.arg)
    /\ Children(<< Public >>) # {}

\* The folders of SLIDE_DIR/public that hold a sample.json.
FoldersWithSidecar ==
    { p[2] : p \in { q \in Children(<< Public >>) :
                       IsDir(q) /\ Exists(q \o << SampleJson >>) } }

\* C11: the names that sampleStats returns are exactly the sub-directories
\* of the public slide area that hold a sample.json, in whatever order the
\* directory was listed: none without it is returned, none with it dropped.
C11_ListsExactlySidecarFolders ==
    (reply.endpoint = "sampleStats" /\ reply.status = 200) =>
        { reply.samples[i] : i \in 1..Len(reply.samples) } = FoldersWithSidecar

\* A list of a tile request with a piece that is not a number.
NonNumeric(list) == ~AllParse(Split(list, ";"))

\* C12: a tile request whose channel list or gain list holds a non-numeric
\* piece is answered with a 4xx parse failure, never with a tile and never
\* with a 5xx, whether or not the addressed dataset can be opened.
C12_MalformedListIs4xx ==
    (reply.endpoint = "tile"
       /\ (NonNumeric(reply.chs) \/ NonNumeric(reply.gains)))
        => reply.status \in 400..499

C16_DeleteAlwaysSuccess ==
    [][ ( /\ reply' # reply
          /\ reply'.endpoint = "deleteSample"
          /\ reply'.arg \in DOMAIN slideDir )
        => /\ reply'.status = 200
           /\ reply'.message = "Samples deleted"
           /\ reply'.rm \in { "ok", "failed" } ]_vars

\* C16, amended: deleteSample on a path that exists starts the delete
\* utility once; where it can be started the answer is 200 "Samples
\* deleted" whether it exited with success (the path and all below it are
\* gone) or with failure (the path, at least, is still there, with what
\* below it could not be removed). Where the utility cannot be started the
\* request fails with 500 and the store is as it was.
C16_DeleteAnswersSuccess ==
    [][ ( /\ reply' # reply
          /\ reply'.endpoint = "deleteSample"
          /\ reply'.arg \in DOMAIN slideDir )
        => \/ /\ reply'.rm = "ok"
              /\ reply'.status = 200
              /\ reply'.message = "Samples deleted"
              /\ slideDir' = RmTree(slideDir, reply'.arg)
           \/ /\ reply'.rm = "failed"
              /\ reply'.status = 200
              /\ reply'.message = "Samples deleted"
              /\ reply'.arg \in DOMAIN slideDir'
              /\ \A p \in DOMAIN slideDir' :
                    p \in DOMAIN slideDir /\ slideDir'[p] = slideDir[p]
              /\ \A p \in (DOMAIN slideDir) \ (DOMAIN slideDir') :
                    p \in Subtree(reply'.arg)
           \/ /\ reply'.rm = "not started"
              /\ reply'.status = 500
              /\ slideDir' = slideDir ]_vars

\* C16's case: the delete utility failed on a sample directory after it
\* had removed the sample.json in it; the answer is the success answer and
\* the directory is still there.
C16_Witness ==
    /\ reply.endpoint = "deleteSample"
    /\ reply.rm = "failed"
    /\ reply.status = 200
    /\ reply.message = "Samples deleted"
    /\ Len(reply.arg) = 2
    /\ IsDir(reply.arg)
    /\ Children(reply.arg) = {}
    /\ EndsWith(reply.arg[2], ZarrSuffix)

\* ------------------------------------------- upload: the completion step

\* The indices that request r has still to consume and that have no scratch
\* file in dir.
MissingIndices(r, dir) ==
    { i \in r.chunk .. (r.total_chunks - 1) :
        ScratchFile(r.name, i) \notin DOMAIN dir }

\* The indices 0 .. total_chunks-1 of request r that have a scratch file.
ScratchIndices(r) ==
    { i \in 0 .. (r.total_chunks - 1) :
        ScratchFile(r.name, i) \in DOMAIN tmpDir }

Smallest(S) == CHOOSE k \in S : \A i \in S : k <= i

\* C14: a last-indexed chunk that arrives while the scratch file of an index
\* is missing starts a completion that fails at the smallest missing index:
\* until then the completion goes on with the same indices missing, and it
\* ends there with a failure, not with "File Uploaded".
C14_FailsAtSmallestMissing ==
    [][ \A s \in Slots :
          ( /\ req[s].pc \in { "opening", "concat" }
            /\ MissingIndices(req[s], tmpDir) # {} )
          => LET k == Smallest(MissingIndices(req[s], tmpDir))
             IN  \/ /\ req'[s].pc \in { "opening", "concat" }
                    /\ req'[s].chunk <= k
                    /\ MissingIndices(req'[s], tmpDir')
                         = MissingIndices(req[s], tmpDir)
                 \/ /\ req'[s].pc = "idle"
                    /\ req[s].chunk = k
                    /\ answer'.name = req[s].name
                    /\ answer'.status = 500
                    /\ answer'.message # "File Uploaded" ]_vars

\* C14's case: the last-indexed chunk of a two-chunk upload arrived before
\* chunk 0; the completion failed at index 0 and the last chunk's scratch
\* file is still there.
C14_Witness ==
    /\ answer.status = 500
    /\ answer.total_chunks = 2
    /\ answer.chunk_number = 1
    /\ failure.k = 0
    /\ ScratchFile(answer.name, 0) \notin DOMAIN tmpDir
    /\ ScratchFile(answer.name, 1) \in DOMAIN tmpDir

\* C15: at every point of a completion step with indices 0..k-1 consumed,
\* the destination is the concatenation of chunks 0..k-1 (of an upload whose
\* requests did not overlap) and the scratch files of exactly the indices
\* k..totalChunks-1 remain.
C15_ExactlyTheRestRemains ==
    \A s \in Slots :
        req[s].pc = "concat" =>
            /\ ScratchIndices(req[s])
                 = req[s].chunk .. (req[s].total_chunks - 1)
            /\ sequential[req[s].name] =>
                 importDir[req[s].name]
                   = ConcatLatest(req[s].name, req[s].chunk)

\* The payloads of the requests sent so far.
DeliveredPayloads == { Payload(i) : i \in 1 .. nreq }

\* C18: a completion step never consumes a half-written chunk: while a
\* re-delivery of chunk i is between truncating the scratch file and writing
\* it, the scratch file that a completion of the same name reads next holds
\* the full payload of some delivery, never the empty or partial content of
\* the file whose write is in progress.
C18_NoHalfWrittenConsumed ==
    \A s \in Slots :
        LET r == req[s]
            path == ScratchFile(r.name, r.chunk)
        IN  ( /\ r.pc = "concat"
              /\ r.chunk < r.total_chunks
              /\ path \in DOMAIN tmpDir
              /\ path \in DOMAIN latest
              /\ latest[path].count >= 1
              /\ \E t \in Slots :
                    /\ req[t].pc = "reading"
                    /\ ~req[t].orphan
                    /\ ScratchFile(req[t].name, req[t].chunk_number) = path )
            => tmpDir[path] \in DeliveredPayloads

\* ------------------------------------------------ upload: several names at once

\* Three accepted names: a plain one, one made of a scratch file name of
\* the first, and one that reaches the first one's files through "./".
IsoNames ==
    { << "a", ".", "t", "i", "f" >>,
      << "a", ".", "t", "i", "f", "_", "0", ".", "t", "i", "f" >>,
      << ".", "/", "a", ".", "t", "i", "f" >> }

\* Clients uploading one file of MaxTotal chunks under each name, the chunks in any
\* order and any number of times, the requests overlapping at will.
InitIso ==
    /\ tmpDir = << >>
    /\ importDir = << >>
    /\ publicDir = FALSE
    /\ req = [ s \in Slots |-> NoRequest ]
    /\ answer = NoAnswer
    /\ nreq = 0
    /\ latest = << >>
    /\ sequential = [ n \in IsoNames |-> TRUE ]
    /\ run = [ n \in IsoNames |-> NoRun ]
    /\ failure = NoFailure
    /\ slideDir = << >>
    /\ SAVE = FALSE
    /\ reply = NoReply
    /\ saving = NoSaving

NextIso ==
    \/ /\ nreq < MaxRequests
       /\ \E s \in Slots, name \in IsoNames, chunk_number \in ChunkNumbers,
             total_chunks \in { MaxTotal }, payload \in {Payload(nreq + 1)} :
             UploadStart(s, name, chunk_number, total_chunks, payload)
    \/ \E s \in Slots : WriteChunk(s)
    \/ \E s \in Slots : OpenDest(s)
    \/ \E s \in Slots : ConcatChunk(s)
    \/ \E s \in Slots : ConcatMissing(s)
    \/ \E s \in Slots : FinishUpload(s)
    \/ AnswerSent

SpecIso == InitIso /\ [][NextIso]_vars

\* The scratch files that requests of a name use.
ScratchKeys(name) == { ScratchFile(name, i) : i \in ChunkNumbers }

\* File p of the directory was created, removed or got other bytes.
Changed(before, after, p) ==
    \/ (p \in DOMAIN before) # (p \in DOMAIN after)
    \/ p \in DOMAIN before /\ p \in DOMAIN after /\ before[p] # after[p]

\* C17: upload sessions of different names are isolated: in every
\* interleaving, a step of a request for one accepted name creates,
\* overwrites, consumes or deletes no scratch file of another accepted name
\* and not the other name's destination, and the scratch keys
\* name_chunkNumber of distinct names are distinct.
C17_NamesIsolated ==
    [][ \A s \in Slots :
          (req'[s].pc # req[s].pc \/ req'[s].chunk # req[s].chunk)
          => LET n == IF req[s].pc = "idle" THEN req'[s].name
                      ELSE req[s].name
             IN  \A m \in IsoNames \ { n } :
                    /\ \A p \in ScratchKeys(m) : ~Changed(tmpDir, tmpDir', p)
                    /\ ~Changed(importDir, importDir', DestFile(m))
                    /\ \A i, j \in ChunkNumbers :
                          ChunkFileName(m, i) # ChunkFileName(n, j) ]_vars

\* ------------------------------------------ upload: after a failed completion

\* The chunks of the upload that is retried, and the requests of its client.
RecoverTotal == 4

RecoverRequests == 6

\* The bytes of the i-th request of that client.
RecoverPayload(i) == [ j \in 1 .. (RecoverRequests + 1 - i) |-> i ]

\* One client uploads one file of RecoverTotal chunks, a request at a time,
\* the chunks in any order and any number of times.
NextRecover ==
    \/ /\ nreq < RecoverRequests
       /\ \E s \in { 1 }, name \in { n \in UploadNames : AllowedFileType(n) },
             chunk_number \in 0 .. (RecoverTotal - 1),
             total_chunks \in { RecoverTotal },
             payload \in { RecoverPayload(nreq + 1) } :
             UploadStart(s, name, chunk_number, total_chunks, payload)
    \/ \E s \in Slots : WriteChunk(s)
    \/ \E s \in Slots : OpenDest(s)
    \/ \E s \in Slots : ConcatChunk(s)
    \/ \E s \in Slots : ConcatMissing(s)
    \/ \E s \in Slots : FinishUpload(s)
    \/ AnswerSent

SpecRecover == Init /\ [][NextRecover]_vars

\* The number of the request that wrote chunk i of the name last.
LastWriter(name, i) == latest[ScratchFile(name, i)].payload[1]

\* The upload of the last failed completion has now been completed.
DoneAfterFailure ==
    /\ failure.k >= 0
    /\ answer.message = "File Uploaded"
    /\ answer.name = failure.name
    /\ answer.total_chunks = failure.total

\* A completion has just failed at index failure.k: the scratch files of the
\* indices below are deleted and the destination holds chunks 0 .. k-1.
FailedHalfWay ==
    (answer.status = 500 /\ failure.at = nreq) =>
        /\ answer.name = failure.name
        /\ \A i \in 0 .. (failure.k - 1) :
              ScratchFile(failure.name, i) \notin DOMAIN tmpDir
        /\ importDir[failure.name] = ConcatLatest(failure.name, failure.k)

\* C19 as stated: after a completion failed at the missing index k, the
\* scratch files of 0..k-1 are deleted and the destination holds chunks
\* 0..k-1; when k > 0, Done is reached only after every index
\* 0..totalChunks-1 has been delivered again before a last-indexed chunk
\* arrives.
C19_EveryIndexAgain ==
    /\ FailedHalfWay
    /\ (DoneAfterFailure /\ failure.k > 0) =>
          \A i \in 0 .. (failure.total - 1) :
              LastWriter(failure.name, i) > failure.at

\* C19, amended: after a completion failed at the missing index k, the
\* scratch files of 0..k-1 are deleted and the destination holds chunks
\* 0..k-1; Done is reached only after every index 0..k has been delivered
\* again and a last-indexed chunk has arrived after them, so delivering
\* chunk k alone and the last-indexed chunk again is not enough when k > 0.
\* The indices above k that were in scratch at the failure need not be sent
\* again.
C19_ConsumedIndicesAgain ==
    /\ FailedHalfWay
    /\ DoneAfterFailure =>
          \A i \in (0 .. failure.k) \cup { failure.total - 1 } :
              LastWriter(failure.name, i) > failure.at

\* C19's case: a completion failed at an index k > 0, and the upload was
\* completed later with a chunk above k that was not delivered again.
C19_Witness ==
    /\ DoneAfterFailure
    /\ failure.k >= 1
    /\ \E i \in (failure.k + 1) .. (failure.total - 2) :
          LastWriter(failure.name, i) <= failure.at

====
